---- MODULE Spec2Model ----
(***************************************************************************)
(* Model of the PID control task of IronOS,                                *)
(* source/Core/Threads/PIDThread.cpp: the task loop startPIDTask, the      *)
(* thermal runaway detector detectThermalRunaway and the clamp chain       *)
(* setOutputx10WattsViaFilters.                                            *)
(*                                                                         *)
(* Time is the FreeRTOS tick counter, an unsigned counter that wraps.  Its *)
(* width (32 bits in the firmware) is scaled down to TickBits bits and the *)
(* board configuration macros that PIDThread.cpp only uses                 *)
(* (THERMAL_RUNAWAY_*, TICKS_SECOND, PID_TIM_HZ, SLEW_LIMIT) are given     *)
(* small values; no property below depends on the values chosen.           *)
(*                                                                         *)
(* Ranges assumed for the values the task only reads: the tip temperature  *)
(* and the tip maximum are below 2^31 (so the uint32 subtraction of line   *)
(* 69, read as int32, is the mathematical difference), the settings are    *)
(* unsigned (getSettingValue returns uint16_t) and powerSupplyWattageLimit *)
(* is a wattage, never negative.                                           *)
(***************************************************************************)
EXTENDS Integers, Sequences, FiniteSets, TLC

VARIABLES
  pc,                    \* position of the control task: "start", "wait", "calc"
  tick,                  \* xTaskGetTickCount()
  settings,              \* getSettingValue(...)
  slewEnabled,           \* whether the build defines SLEW_LIMIT
  currentTempTargetDegC, \* global, written by the mode logic
  powerSupplyWattageLimit,
  heaterThermalRunaway,
  tempError,             \* history<int32_t, PID_TIM_HZ>
  PIDTempTarget,         \* local of startPIDTask
  currentTipTempInC,     \* local of startPIDTask
  tipTempCRunawayTemp,   \* static of detectThermalRunaway
  runawaylastChangeTime, \* static of detectThermalRunaway
  lastPowerPulseStart,   \* static of setOutputx10WattsViaFilters
  lastPowerPulseEnd,     \* static of setOutputx10WattsViaFilters
  x10WattsOutLast,       \* static of setOutputx10WattsViaFilters (SLEW_LIMIT)
  cycle,                 \* kind of the current / last cycle: "none", "sample", "timeout"
  calls,                 \* the calls made and values read in that cycle, in program order
  stall,                 \* observer: consecutive sample cycles with a large error at one temperature
  healthy,               \* observer: the baseline a heating-up tip is measured against
  watch                  \* observer: a run of like cycles [n, v] and the commit before this cycle [prev]

progVars == <<currentTempTargetDegC, powerSupplyWattageLimit, heaterThermalRunaway,
              tempError, PIDTempTarget, currentTipTempInC, tipTempCRunawayTemp,
              runawaylastChangeTime, lastPowerPulseStart, lastPowerPulseEnd,
              x10WattsOutLast>>

vars == <<pc, tick, settings, slewEnabled, currentTempTargetDegC,
          powerSupplyWattageLimit, heaterThermalRunaway, tempError, PIDTempTarget,
          currentTipTempInC, tipTempCRunawayTemp, runawaylastChangeTime,
          lastPowerPulseStart, lastPowerPulseEnd, x10WattsOutLast, cycle, calls,
          stall, healthy, watch>>

----------------------------------------------------------------------------
(* Widths and configuration *)

TickBits == 6
TickMod == 2 ^ TickBits

INT16_MAX == 32767
INT16_MIN == -32768

THERMAL_RUNAWAY_TEMP_C == 3
THERMAL_RUNAWAY_TIME_SEC == 2
TICKS_SECOND == 10
TICKS_100MS == TICKS_SECOND \div 10
PID_TIM_HZ == 2
SLEW_LIMIT == 7

MaxSetPoint == 450
ADCTop == 32767
ADCMargin == 32

powerPulseWaitUnit == 25 * TICKS_100MS
powerPulseDurationUnit == (5 * TICKS_100MS) \div 2

RunawayTimeLimit == THERMAL_RUNAWAY_TIME_SEC * TICKS_SECOND

----------------------------------------------------------------------------
(* Integer conversions *)

ToInt16(x) == ((x + 32768) % 65536) - 32768
ToUint16(x) == x % 65536
ToTick(x) == x % TickMod

Abs(x) == IF x < 0 THEN -x ELSE x
Min(a, b) == IF a < b THEN a ELSE b

Call(f, a, b) == [f |-> f, a |-> a, b |-> b]

----------------------------------------------------------------------------
(* history<int32_t, PID_TIM_HZ>: a circular buffer with a running sum *)

\* mutant: the sum is not initialized with the samples
HistoryInitStaleSum == [buf |-> [i \in 0 .. PID_TIM_HZ - 1 |-> 0], sum |-> 1, loc |-> 0]

\* line 35: {{0}, 0, 0}
HistoryInit == [buf |-> [i \in 0 .. PID_TIM_HZ - 1 |-> 0], sum |-> 0, loc |-> 0]

HistoryUpdate(h, val) ==
  [buf |-> [h.buf EXCEPT ![h.loc] = val],
   sum |-> h.sum - h.buf[h.loc] + val,
   loc |-> (h.loc + 1) % PID_TIM_HZ]

\* mutant: the sum is divided by the index of the last slot
HistoryAverageOverLastIndex(h) ==
  IF h.sum < 0 THEN -((-h.sum) \div (PID_TIM_HZ - 1)) ELSE h.sum \div (PID_TIM_HZ - 1)

\* sum / size in C++: the quotient is truncated toward zero
HistoryAverage(h) ==
  IF h.sum < 0 THEN -((-h.sum) \div PID_TIM_HZ) ELSE h.sum \div PID_TIM_HZ

----------------------------------------------------------------------------
(* startPIDTask: set point clamps and temperature error, lines 54-71 *)

\* mutant: the 450 degree cap is left out
CapSetPointMissing(target) == target

CapSetPoint(target) == IF target > MaxSetPoint THEN MaxSetPoint ELSE target

CapTipMax(target, tipMax) == IF target > tipMax THEN tipMax ELSE target

ClampedTarget(target, tipMax) == CapTipMax(CapSetPoint(target), tipMax)

Saturate16(e) ==
  LET hi == IF e > INT16_MAX THEN INT16_MAX ELSE e
  IN  IF hi < INT16_MIN THEN INT16_MIN ELSE hi

TempError(target, tipTemp) == Saturate16(target - tipTemp + 1)

----------------------------------------------------------------------------
(* detectThermalRunaway, lines 112-138.  rs is the detector's state        *)
(* [temp, time, flag]; the result is its state after the call.             *)

RunawayDelta(tipTemp16, refTemp) ==
  LET d == ToInt16(tipTemp16 - ToInt16(refTemp))
  IN  IF d < 0 THEN ToInt16(-d) ELSE d

RunawayElapsed(now, since) == ToTick(now - since)

\* mutant: re-basing moves the reference temperature but keeps the old timestamp
RunawayRebaseKeepsTime(rs, tipTemp16, now) ==
  [temp |-> ToUint16(tipTemp16), time |-> rs.time, flag |-> rs.flag]

RunawayRebase(rs, tipTemp16, now) ==
  [temp |-> ToUint16(tipTemp16), time |-> now, flag |-> rs.flag]

\* mutant: the time limit is compared with the tick count itself
RunawayTimedOutSinceBoot(rs, now) ==
  IF now > RunawayTimeLimit
  THEN [rs EXCEPT !.flag = TRUE]
  ELSE rs

RunawayTimedOut(rs, now) ==
  IF RunawayElapsed(now, rs.time) > RunawayTimeLimit
  THEN [rs EXCEPT !.flag = TRUE]
  ELSE rs

\* mutant: a small error moves the reference temperature but keeps the timestamp
RunawayIdleKeepsTime(rs, tipTemp16, now) ==
  [temp |-> ToUint16(tipTemp16), time |-> rs.time, flag |-> rs.flag]

\* mutant: a small error also clears the fault
RunawayIdleClears(rs, tipTemp16, now) ==
  [temp |-> ToUint16(tipTemp16), time |-> now, flag |-> FALSE]

RunawayIdle(rs, tipTemp16, now) ==
  [temp |-> ToUint16(tipTemp16), time |-> now, flag |-> rs.flag]

detectThermalRunaway(rs, tipTemp, tError, now) ==
  LET t16 == ToInt16(tipTemp)
  IN  IF tError > THERMAL_RUNAWAY_TEMP_C
      THEN IF RunawayDelta(t16, rs.temp) > THERMAL_RUNAWAY_TEMP_C
           THEN RunawayRebase(rs, t16, now)
           ELSE RunawayTimedOut(rs, now)
      ELSE RunawayIdle(rs, t16, now)

----------------------------------------------------------------------------
(* setOutputx10WattsViaFilters, lines 140-189: the stages of the chain *)

\* lines 149-154: open a new pulse window when the wait has passed
PulseWindow(s, now, start, end) ==
  IF s.KeepAwakePulse # 0
     /\ ToTick(now - start) > ToTick(powerPulseWaitUnit * s.KeepAwakePulseWait)
  THEN [start |-> now,
        end   |-> ToTick(now + ToTick(powerPulseDurationUnit * s.KeepAwakePulseDuration))]
  ELSE [start |-> start, end |-> end]

\* lines 148, 157-159: the pulse level as a floor inside the window
KeepAwakeFloor(x, s, now, end) ==
  IF s.KeepAwakePulse # 0 /\ x < s.KeepAwakePulse /\ now < end
  THEN s.KeepAwakePulse
  ELSE x

\* mutant: the margin below the top of the ADC is left out
ADCCutoffAtTop(x, raw) == IF raw > ADCTop THEN 0 ELSE x

\* lines 163-165
ADCCutoff(x, raw) == IF raw > ADCTop - ADCMargin THEN 0 ELSE x

\* mutant: the runaway cutoff is left out
RunawayCutoffSkipped(x, flag) == x

\* lines 166-168
RunawayCutoff(x, flag) == IF flag THEN 0 ELSE x

\* mutant: a set power limit becomes the output, also when that raises it
PowerLimitCeilingForces(x, limit) == IF limit # 0 THEN limit * 10 ELSE x

\* lines 169-171
PowerLimitCeiling(x, limit) == IF limit # 0 /\ x > limit * 10 THEN limit * 10 ELSE x

\* mutant: a set supply limit becomes the output, also when that raises it
SupplyCeilingForces(x, limit) == IF limit # 0 THEN limit * 10 ELSE x

\* lines 172-174
SupplyCeiling(x, limit) == IF limit # 0 /\ x > limit * 10 THEN limit * 10 ELSE x

\* mutant: the output may also fall by SLEW_LIMIT a cycle at most
SlewLimitBothWays(x, last) ==
  LET stepped == IF x - last > SLEW_LIMIT THEN last + SLEW_LIMIT
                 ELSE IF last - x > SLEW_LIMIT THEN last - SLEW_LIMIT ELSE x
  IN  IF stepped < 0 THEN 0 ELSE stepped

\* mutant: the step is taken from the request and not from the last output
SlewLimitFromRequest(x, last) ==
  LET stepped == IF x - last > SLEW_LIMIT THEN x - SLEW_LIMIT ELSE x
  IN  IF stepped < 0 THEN 0 ELSE stepped

\* lines 176-181, compiled only with SLEW_LIMIT
SlewLimit(x, last) ==
  LET stepped == IF x - last > SLEW_LIMIT THEN last + SLEW_LIMIT ELSE x
  IN  IF stepped < 0 THEN 0 ELSE stepped

\* lines 147-183: the value after each stage, in the order of the code
ChainStages(x, s, now, end, raw, flag, supply, slew, last) ==
  LET floored == KeepAwakeFloor(x, s, now, end)
      adc     == ADCCutoff(floored, raw)
      run     == RunawayCutoff(adc, flag)
      limited == PowerLimitCeiling(run, s.PowerLimit)
      capped  == SupplyCeiling(limited, supply)
  IN  <<Call("KeepAwakeFloor", x, floored),
        Call("ADCCutoff", floored, adc),
        Call("RunawayCutoff", adc, run),
        Call("PowerLimitCeiling", run, limited),
        Call("SupplyCeiling", limited, capped)>>
      \o (IF slew THEN <<Call("SlewLimit", capped, SlewLimit(capped, last))>> ELSE <<>>)

\* line 184: the value handed to setTipX10Watts
FilteredOutput(stages) == stages[Len(stages)].b

\* lines 148, 163, 169, 172: what the chain reads
ChainReads(s, raw, supply) ==
  <<Call("KeepAwakePulse", s.KeepAwakePulse, 0),
    Call("getTipRawTemp", raw, 0),
    Call("PowerLimit", s.PowerLimit, 0),
    Call("powerSupplyWattageLimit", supply, 0)>>

\* mutant: the watchdog is serviced before the commit
CommitCallsWatchdogFirst(out) ==
  <<Call("resetWatchdog", 0, 0), Call("setTipX10Watts", out, 0)>>

\* lines 184-188: commit, then service the watchdog
CommitCalls(out) == <<Call("setTipX10Watts", out, 0), Call("resetWatchdog", 0, 0)>>

\* line 107: the ADC interrupt timed out
TimeoutCalls == <<Call("setTipPWM", 0, 0)>>

----------------------------------------------------------------------------
(* State *)

DefaultSettings ==
  [KeepAwakePulse |-> 0, KeepAwakePulseWait |-> 1, KeepAwakePulseDuration |-> 1,
   PowerLimit |-> 0]

Init ==
  /\ pc = "start"
  /\ tick = 0
  /\ settings = DefaultSettings
  /\ slewEnabled \in BOOLEAN
  /\ currentTempTargetDegC = 0
  /\ powerSupplyWattageLimit = 0
  /\ heaterThermalRunaway = FALSE
  /\ tempError = HistoryInit
  /\ PIDTempTarget = 0
  /\ currentTipTempInC = 0
  /\ tipTempCRunawayTemp = 0
  /\ runawaylastChangeTime = 0
  /\ lastPowerPulseStart = 0
  /\ lastPowerPulseEnd = 0
  /\ x10WattsOutLast = 0
  /\ cycle = "none"
  /\ calls = <<>>
  /\ stall = [n |-> 0, temp |-> 0]
  /\ healthy = [temp |-> 0, time |-> 0]
  /\ watch = [n |-> 0, v |-> 0, prev |-> 0]

RunawayState ==
  [temp |-> tipTempCRunawayTemp, time |-> runawaylastChangeTime,
   flag |-> heaterThermalRunaway]

----------------------------------------------------------------------------
(* The control task *)

\* startPIDTask, lines 33-44: the prologue before the loop
Startup ==
  /\ pc = "start"
  /\ pc' = "wait"
  /\ calls' = <<Call("setTipX10Watts", 0, 0)>>
  /\ tempError' = HistoryInit
  /\ currentTempTargetDegC' = 0
  /\ PIDTempTarget' = 0
  /\ UNCHANGED <<tick, settings, slewEnabled, powerSupplyWattageLimit,
                 heaterThermalRunaway, currentTipTempInC, tipTempCRunawayTemp,
                 runawaylastChangeTime, lastPowerPulseStart, lastPowerPulseEnd,
                 x10WattsOutLast, cycle, stall, healthy, watch>>

\* lines 48-53: the notification arrived; read the tip temperature and the target
TakeSampleCore(tipTemp) ==
  /\ pc = "wait"
  /\ pc' = "calc"
  /\ cycle' = "sample"
  /\ currentTipTempInC' = tipTemp
  /\ PIDTempTarget' = currentTempTargetDegC
  /\ calls' = <<Call("currentTempTargetDegC", currentTempTargetDegC, 0)>>
  /\ UNCHANGED <<tick, settings, slewEnabled, currentTempTargetDegC,
                 powerSupplyWattageLimit, heaterThermalRunaway, tempError,
                 tipTempCRunawayTemp, runawaylastChangeTime, lastPowerPulseStart,
                 lastPowerPulseEnd, x10WattsOutLast, stall, healthy>>

TakeSample(tipTemp) ==
  /\ TakeSampleCore(tipTemp)
  /\ UNCHANGED watch

\* mutant: the clamps read the shared target again
EffectiveTargetRereads(target, tipMax) ==
  IF currentTempTargetDegC # 0 THEN ClampedTarget(currentTempTargetDegC, tipMax)
                               ELSE currentTempTargetDegC

\* lines 54-69: the set point the error is computed against
EffectiveTarget(target, tipMax) ==
  IF target # 0 THEN ClampedTarget(target, tipMax) ELSE target

\* lines 69-71 and 102: the error of this cycle
CycleError(target, tipMax, tipTemp) ==
  IF target # 0 THEN TempError(EffectiveTarget(target, tipMax), tipTemp) ELSE 0

\* mutant: the power is computed whether or not the target is 0
RequestedPowerAlways(target, feedForward, powerAverage) == feedForward + powerAverage

\* mutant: the integral term is left out
RequestedPowerNoIntegral(target, feedForward, powerAverage) ==
  IF target # 0 THEN feedForward ELSE 0

\* lines 50, 83-92: the power requested of the clamp chain
RequestedPower(target, feedForward, powerAverage) ==
  IF target # 0 THEN feedForward + powerAverage ELSE 0

\* lines 61-92: what the heating branch calls, in order
HeatingCalls(target, tipMax, tError, feedForward, powerAverage) ==
  IF target # 0
  THEN <<Call("getTipMaxInC", tipMax, 0),
         Call("tempError.update", tError, 0),
         Call("tempToX10Watts", tError, feedForward),
         Call("x10WattHistory.average", powerAverage, 0)>>
  ELSE <<>>

\* lines 54-104 with setOutputx10WattsViaFilters, lines 140-189
ComputeCore(tipMax, raw, feedForward, powerAverage) ==
  LET tError == CycleError(PIDTempTarget, tipMax, currentTipTempInC)
      req    == RequestedPower(PIDTempTarget, feedForward, powerAverage)
      rs     == detectThermalRunaway(RunawayState, currentTipTempInC, tError, tick)
      win    == PulseWindow(settings, tick, lastPowerPulseStart, lastPowerPulseEnd)
      stages == ChainStages(req, settings, tick, win.end, raw, rs.flag,
                            powerSupplyWattageLimit, slewEnabled, x10WattsOutLast)
      out    == FilteredOutput(stages)
  IN  /\ pc = "calc"
      /\ pc' = "wait"
      /\ PIDTempTarget' = EffectiveTarget(PIDTempTarget, tipMax)
      /\ tempError' = IF PIDTempTarget # 0 THEN HistoryUpdate(tempError, tError)
                                           ELSE tempError
      /\ tipTempCRunawayTemp' = rs.temp
      /\ runawaylastChangeTime' = rs.time
      /\ heaterThermalRunaway' = rs.flag
      /\ lastPowerPulseStart' = win.start
      /\ lastPowerPulseEnd' = win.end
      /\ x10WattsOutLast' = IF slewEnabled THEN out ELSE x10WattsOutLast
      /\ calls' = calls
                  \o HeatingCalls(PIDTempTarget, tipMax, tError, feedForward, powerAverage)
                  \o <<Call("detectThermalRunaway", ToInt16(currentTipTempInC), tError),
                       Call("setOutputx10WattsViaFilters", req, 0)>>
                  \o ChainReads(settings, raw, powerSupplyWattageLimit)
                  \o stages
                  \o CommitCalls(out)
      /\ stall' = IF tError > THERMAL_RUNAWAY_TEMP_C
                  THEN IF stall.n > 0 /\ stall.temp = currentTipTempInC
                       THEN [stall EXCEPT !.n = 2]
                       ELSE [n |-> 1, temp |-> currentTipTempInC]
                  ELSE [n |-> 0, temp |-> 0]
      /\ UNCHANGED <<tick, settings, slewEnabled, currentTempTargetDegC,
                     powerSupplyWattageLimit, currentTipTempInC, cycle>>

Compute(tipMax, raw, feedForward, powerAverage) ==
  /\ ComputeCore(tipMax, raw, feedForward, powerAverage)
  /\ UNCHANGED <<healthy, watch>>

\* mutant: a timeout also clears the slew state
TimeoutClearsSlew ==
  /\ pc = "wait"
  /\ cycle' = "timeout"
  /\ calls' = TimeoutCalls
  /\ x10WattsOutLast' = 0
  /\ UNCHANGED <<pc, tick, settings, slewEnabled, currentTempTargetDegC,
                 powerSupplyWattageLimit, heaterThermalRunaway, tempError,
                 PIDTempTarget, currentTipTempInC, tipTempCRunawayTemp,
                 runawaylastChangeTime, lastPowerPulseStart, lastPowerPulseEnd,
                 stall, healthy, watch>>

\* lines 48, 105-108: no notification within the wait
Timeout ==
  /\ pc = "wait"
  /\ cycle' = "timeout"
  /\ calls' = TimeoutCalls
  /\ UNCHANGED <<pc, tick, settings, slewEnabled, progVars, stall, healthy, watch>>

----------------------------------------------------------------------------
(* The rest of the firmware *)

\* the tick interrupt
Tick(d) ==
  /\ tick' = ToTick(tick + d)
  /\ UNCHANGED <<pc, settings, slewEnabled, progVars, cycle, calls, stall, healthy, watch>>

\* the mode logic writes the target
SetTarget(v) ==
  /\ currentTempTargetDegC' = v
  /\ UNCHANGED <<pc, tick, settings, slewEnabled, powerSupplyWattageLimit,
                 heaterThermalRunaway, tempError, PIDTempTarget, currentTipTempInC,
                 tipTempCRunawayTemp, runawaylastChangeTime, lastPowerPulseStart,
                 lastPowerPulseEnd, x10WattsOutLast, cycle, calls, stall, healthy, watch>>

\* the settings menu writes a setting, between cycles
SetSetting(opt, v) ==
  /\ pc = "wait"
  /\ settings[opt] # v
  /\ settings' = [settings EXCEPT ![opt] = v]
  /\ UNCHANGED <<pc, tick, slewEnabled, progVars, cycle, calls, stall, healthy, watch>>

\* the supply detection writes the supply limit, between cycles
SetSupplyLimit(v) ==
  /\ pc = "wait"
  /\ powerSupplyWattageLimit # v
  /\ powerSupplyWattageLimit' = v
  /\ UNCHANGED <<pc, tick, settings, slewEnabled, currentTempTargetDegC,
                 heaterThermalRunaway, tempError, PIDTempTarget, currentTipTempInC,
                 tipTempCRunawayTemp, runawaylastChangeTime, lastPowerPulseStart,
                 lastPowerPulseEnd, x10WattsOutLast, cycle, calls, stall, healthy, watch>>

----------------------------------------------------------------------------
(* What a cycle did, read off its calls *)

CallsOf(f) == SelectSeq(calls, LAMBDA c : c.f = f)

Position(f) == CHOOSE i \in 1 .. Len(calls) : calls[i].f = f

SampleDone == pc = "wait" /\ cycle = "sample"
TimeoutDone == pc = "wait" /\ cycle = "timeout"

TargetRead == CallsOf("currentTempTargetDegC")[1].a
TipMaxRead == CallsOf("getTipMaxInC")[1].a
ErrorFiltered == CallsOf("tempError.update")[1].a
ErrorDetected == CallsOf("detectThermalRunaway")[1].b
Requested == CallsOf("setOutputx10WattsViaFilters")[1].a
RawRead == CallsOf("getTipRawTemp")[1].a
PulseLevelRead == CallsOf("KeepAwakePulse")[1].a
PowerLimitRead == CallsOf("PowerLimit")[1].a
SupplyLimitRead == CallsOf("powerSupplyWattageLimit")[1].a
StageIn(f) == CallsOf(f)[1].a
StageOut(f) == CallsOf(f)[1].b
Committed == IF cycle = "timeout" THEN CallsOf("setTipPWM")[1].a
                                  ELSE CallsOf("setTipX10Watts")[1].a

----------------------------------------------------------------------------
(* The control loop: targets and temperatures change, the chain is idle *)

TickStep == TickMod \div 4

Temps == {25, 40}
Targets == {0, 300}
TipMax == 500
RawOk == 1000
FeedForward == 5
PowerAverage == 2

Next ==
  \/ Startup
  \/ \E t \in Temps : TakeSample(t)
  \/ Compute(TipMax, RawOk, FeedForward, PowerAverage)
  \/ Timeout
  \/ Tick(TickStep)
  \/ \E v \in Targets : SetTarget(v)

Spec == Init /\ [][Next]_vars

----------------------------------------------------------------------------
(* Claims about the control loop, checked under Spec *)

\* C2: heaterThermalRunaway is sticky: once true it stays true over every step
\* of the control task (sample cycles with any target, temperature and error,
\* and sampler timeouts); nothing in the loop writes it back to false.
C2_RunawaySticky == [][heaterThermalRunaway => heaterThermalRunaway']_vars

\* the flag is set and a later cycle ran the detector's reset branch (target 0)
C2_Witness == heaterThermalRunaway /\ SampleDone /\ TargetRead = 0

\* a sample cycle of a run of cycles with a large error at one temperature,
\* entered with the flag still clear
StallCycle ==
  /\ pc = "calc" /\ pc' = "wait"
  /\ stall'.n >= 1
  /\ ~heaterThermalRunaway

StallElapsed == RunawayElapsed(tick, runawaylastChangeTime) > RunawayTimeLimit

StallNearReference ==
  Abs(currentTipTempInC - tipTempCRunawayTemp) <= THERMAL_RUNAWAY_TEMP_C

ZeroOnceTripped == heaterThermalRunaway /\ pc = "wait" /\ cycle # "none" => Committed = 0

\* C3 as stated: in a run of sample cycles with the error above
\* THERMAL_RUNAWAY_TEMP_C and a constant tip temperature, the flag is set in
\* the first cycle at which now - runawaylastChangeTime exceeds the time limit,
\* not earlier, and the output is 0 in that cycle and every later one.
C3_Original ==
  /\ [][StallCycle => (heaterThermalRunaway' <=> StallElapsed)]_vars
  /\ []ZeroOnceTripped

\* C3, amended: the flag is set in the first cycle of the run at which the tip
\* temperature is within THERMAL_RUNAWAY_TEMP_C of the stored reference (every
\* cycle of the run after its first is) and now - runawaylastChangeTime exceeds
\* the time limit, not earlier; the output is 0 in that cycle and every later one.
C3_StallTrips ==
  /\ [][StallCycle => (heaterThermalRunaway' <=> (StallNearReference /\ StallElapsed))]_vars
  /\ [][pc = "calc" /\ pc' = "wait" /\ stall'.n = 2 => StallNearReference]_vars
  /\ []ZeroOnceTripped

\* the flag is up at the end of a cycle that continued a run, and the power
\* that cycle asked for was cut to 0
C3_Witness ==
  /\ SampleDone /\ stall.n = 2 /\ heaterThermalRunaway
  /\ Requested > 0 /\ Committed = 0

\* C8: in a sample cycle that read target 0 the power requested of the clamp
\* chain is 0, whatever the tip temperature and the histories hold, and the
\* runaway detector is still called, once, with error 0.
C8_OffRequestsNothing ==
  SampleDone /\ TargetRead = 0 =>
    /\ Requested = 0
    /\ Len(CallsOf("detectThermalRunaway")) = 1
    /\ ErrorDetected = 0

\* target 0 read with a hot tip and a filled error history
C8_Witness ==
  /\ SampleDone /\ TargetRead = 0
  /\ currentTipTempInC = 40 /\ tempError.sum # 0
  /\ CallsOf("detectThermalRunaway")[1].a = 40

\* C10: the watchdog is reset only after the commit of the same cycle: a sample
\* cycle makes exactly one commit, followed by exactly one watchdog reset as
\* its last call, and no reset happens before the commit or in a cycle that
\* did not commit through the clamp chain (a sampler timeout, the start-up).
C10_WatchdogAfterCommit ==
  /\ SampleDone =>
       /\ Len(CallsOf("setTipX10Watts")) = 1
       /\ Len(CallsOf("resetWatchdog")) = 1
       /\ calls[Len(calls) - 1].f = "setTipX10Watts"
       /\ calls[Len(calls)].f = "resetWatchdog"
  /\ ~SampleDone => CallsOf("resetWatchdog") = <<>>

\* a sample cycle that committed a positive power and then reset the watchdog
C10_Witness ==
  /\ SampleDone /\ Committed > 0
  /\ Position("setTipX10Watts") < Position("resetWatchdog")

----------------------------------------------------------------------------
(* The clamp chain: the heater is on, the settings, the supply limit, the   *)
(* raw reading and the requested power change                               *)

ClampTemp == 25
ClampTarget == 300
RawReadings == {ADCTop - ADCMargin, ADCTop - 10}
FeedForwards == {-5, 40}
PulseLevels == {0, 50}
PowerLimits == {0, 1, 3}
SupplyLimits == {0, 2}

NextClamp ==
  \/ Startup
  \/ TakeSample(ClampTemp)
  \/ \E r \in RawReadings, f \in FeedForwards : Compute(TipMax, r, f, PowerAverage)
  \/ Timeout
  \/ Tick(TickStep)
  \/ SetTarget(ClampTarget)
  \/ \E v \in PulseLevels : SetSetting("KeepAwakePulse", v)
  \/ \E v \in PowerLimits : SetSetting("PowerLimit", v)
  \/ \E v \in SupplyLimits : SetSupplyLimit(v)

SpecClamp == Init /\ [][NextClamp]_vars

----------------------------------------------------------------------------
(* Claims about the clamp chain, checked under SpecClamp *)

\* C1: in every cycle in which heaterThermalRunaway is true when the clamp
\* chain runs, the value committed to the heater is 0, whatever the requested
\* power, the keep-awake pulse, the power limit, the supply limit and the slew
\* state are; a sampler-timeout cycle commits 0 as well.
C1_RunawayCommitsZero ==
  /\ SampleDone /\ heaterThermalRunaway => Committed = 0
  /\ TimeoutDone => Committed = 0

\* the flag is up, power was requested, the keep-awake floor had raised it
\* inside its window, both limits are set: 0 was committed
C1_Witness ==
  /\ SampleDone /\ heaterThermalRunaway
  /\ StageOut("KeepAwakeFloor") > StageIn("KeepAwakeFloor")
  /\ StageIn("RunawayCutoff") > 0
  /\ PowerLimitRead # 0 /\ SupplyLimitRead # 0
  /\ slewEnabled
  /\ Committed = 0

\* the controller state that lives across cycles
persistent == <<tempError, tipTempCRunawayTemp, runawaylastChangeTime,
                heaterThermalRunaway, lastPowerPulseStart, lastPowerPulseEnd,
                x10WattsOutLast>>

\* C5: a sampler-timeout cycle commits zero heater output and leaves the error
\* history, the runaway reference temperature and timestamp,
\* heaterThermalRunaway, lastPowerPulseStart/End and the slew state unchanged.
C5_TimeoutTouchesNothing ==
  [][cycle' = "timeout" => Committed' = 0 /\ UNCHANGED persistent]_vars

\* a timeout cycle ended with every piece of persistent state away from its
\* initial value
C5_Witness ==
  /\ TimeoutDone
  /\ tempError.sum # 0 /\ tipTempCRunawayTemp # 0 /\ runawaylastChangeTime # 0
  /\ lastPowerPulseStart # 0 /\ lastPowerPulseEnd # 0 /\ x10WattsOutLast # 0

\* C6: in every sample cycle in which the raw tip reading is greater than
\* 0x7FFF - 32 the committed heater power is 0, even when the runaway flag is
\* false, the requested power is positive and the keep-awake floor is active.
C6_SaturatedReadingCommitsZero ==
  SampleDone /\ RawRead > ADCTop - ADCMargin => Committed = 0

\* raw reading 0x7FFF - 10, flag clear, positive request raised further by the
\* keep-awake floor in its window: 0 was committed
C6_Witness ==
  /\ SampleDone /\ RawRead = ADCTop - 10 /\ ~heaterThermalRunaway
  /\ Requested > 0
  /\ StageOut("KeepAwakeFloor") > StageIn("KeepAwakeFloor")
  /\ Committed = 0

\* C7: in every sample cycle the committed power is at most PowerLimit*10
\* when that setting is non-zero and at most powerSupplyWattageLimit*10 when
\* that limit is non-zero, in whatever order the limits were changed between
\* cycles and also when the keep-awake floor raised the value.
C7_BothCeilingsHold ==
  SampleDone =>
    /\ PowerLimitRead # 0 => Committed <= PowerLimitRead * 10
    /\ SupplyLimitRead # 0 => Committed <= SupplyLimitRead * 10

\* a request above both limits, the supply limit the smaller: it was committed
C7_Witness ==
  /\ SampleDone /\ PowerLimitRead # 0 /\ SupplyLimitRead # 0
  /\ SupplyLimitRead < PowerLimitRead
  /\ Requested > PowerLimitRead * 10
  /\ PulseLevelRead # 0
  /\ Committed = SupplyLimitRead * 10

\* the stages that come after the keep-awake floor in this cycle
Cutoffs == {"ADCCutoff", "RunawayCutoff"}
Ceilings == {"PowerLimitCeiling", "SupplyCeiling"}
LaterStages == Cutoffs \cup Ceilings \cup (IF slewEnabled THEN {"SlewLimit"} ELSE {})

\* C17 as stated: every stage of the clamp chain other than the keep-awake
\* floor outputs a value less than or equal to its input, for every input
\* including negative requested power.
C17_Original ==
  SampleDone => \A f \in LaterStages : StageOut(f) <= StageIn(f)

\* C17, amended: a stage other than the keep-awake floor never outputs more
\* than the larger of its input and 0.  The two ceilings output at most their
\* input; a cutoff outputs its input or 0, and the slew limiter at most its
\* input when that is not negative and 0 when it is, so a negative input is
\* raised to 0 by a cutoff that fires and by the slew limiter.
C17_NoStageRaisesAboveZero ==
  SampleDone =>
    /\ \A f \in Ceilings : StageOut(f) <= StageIn(f)
    /\ \A f \in Cutoffs : StageOut(f) \in {StageIn(f), 0}
    /\ slewEnabled =>
         /\ StageIn("SlewLimit") >= 0 =>
              StageOut("SlewLimit") \in 0 .. StageIn("SlewLimit")
         /\ StageIn("SlewLimit") < 0 => StageOut("SlewLimit") = 0

\* a negative request met a saturated raw reading: the cutoff put out 0, and
\* the ceilings, both set, and the slew limiter passed the 0 on
C17_Witness ==
  /\ SampleDone /\ slewEnabled
  /\ StageIn("ADCCutoff") < 0 /\ StageOut("ADCCutoff") = 0
  /\ PowerLimitRead # 0 /\ SupplyLimitRead # 0
  /\ Committed = 0

----------------------------------------------------------------------------
(* A tip that heats up: every sample cycle has a large error, and the tip   *)
(* temperature has moved by more than THERMAL_RUNAWAY_TEMP_C from the       *)
(* baseline, or the time limit since the baseline has not passed yet.       *)
(* healthy is that baseline, kept by the scenario and not by the detector.  *)

HeatingTemps == {25, 30, 35}
HeatingTickStep == TickMod \div 8

HeatingMoved == Abs(currentTipTempInC - healthy.temp) > THERMAL_RUNAWAY_TEMP_C
HeatingWithinLimit == ToTick(tick - healthy.time) <= RunawayTimeLimit

HeatingSample(tipTemp) ==
  /\ currentTempTargetDegC # 0
  /\ TakeSample(tipTemp)

HeatingCompute ==
  /\ CycleError(PIDTempTarget, TipMax, currentTipTempInC) > THERMAL_RUNAWAY_TEMP_C
  /\ HeatingMoved \/ HeatingWithinLimit
  /\ ComputeCore(TipMax, RawOk, FeedForward, PowerAverage)
  /\ healthy' = IF HeatingMoved THEN [temp |-> currentTipTempInC, time |-> tick]
                                ELSE healthy
  /\ UNCHANGED watch

NextHealthy ==
  \/ Startup
  \/ SetTarget(ClampTarget)
  \/ \E t \in HeatingTemps : HeatingSample(t)
  \/ HeatingCompute
  \/ Timeout
  \/ Tick(HeatingTickStep)

SpecHealthy == Init /\ [][NextHealthy]_vars

\* C4: starting with the flag false, if every sample cycle has an error above
\* THERMAL_RUNAWAY_TEMP_C and the tip temperature moves by more than
\* THERMAL_RUNAWAY_TEMP_C from the reference before the time limit since the
\* reference timestamp passes, the reference (temperature, timestamp) is
\* re-based at each such move and heaterThermalRunaway stays false.
C4_HeatingNeverTrips ==
  /\ ~heaterThermalRunaway
  /\ tipTempCRunawayTemp = healthy.temp
  /\ runawaylastChangeTime = healthy.time

\* the reference was re-based in a cycle later after start-up than the time
\* limit, and the flag is clear
C4_Witness ==
  /\ SampleDone /\ ErrorDetected > THERMAL_RUNAWAY_TEMP_C
  /\ tipTempCRunawayTemp = 35 /\ currentTipTempInC = 35
  /\ runawaylastChangeTime = tick /\ tick > RunawayTimeLimit
  /\ stall.n = 1
  /\ ~heaterThermalRunaway

----------------------------------------------------------------------------
(* The set point clamps and the error of the first cycle, for a range of    *)
(* targets, tip maxima and tip temperatures                                 *)

SetPoints == {1, 300, 450, 451, 10000}
TipMaxes == {0, 400, 500}
TipTemps == {0, 25, 449, 460, 40000}

FirstSample(tipTemp) ==
  /\ cycle = "none"
  /\ TakeSample(tipTemp)

NextTarget ==
  \/ Startup
  \/ \E v \in SetPoints : SetTarget(v)
  \/ \E t \in TipTemps : FirstSample(t)
  \/ \E m \in TipMaxes : Compute(m, RawOk, FeedForward, PowerAverage)

SpecTarget == Init /\ [][NextTarget]_vars

\* C9: for every non-zero target T and tip maximum M the effective target is
\* min(T, 450, M), and the error fed to the filter and to the runaway detector
\* is that effective target minus the current temperature plus 1, saturated
\* to [INT16_MIN, INT16_MAX].
C9_ClampedTargetAndError ==
  SampleDone /\ TargetRead # 0 =>
    LET eff == Min(Min(TargetRead, 450), TipMaxRead)
        raw == eff - currentTipTempInC + 1
        sat == IF raw > 32767 THEN 32767 ELSE IF raw < -32768 THEN -32768 ELSE raw
    IN  /\ PIDTempTarget = eff
        /\ ErrorFiltered = sat
        /\ ErrorDetected = sat
        /\ tempError.buf[0] = sat

\* target 10000 with tip maximum 500: the effective target is 450
C9_Witness ==
  /\ SampleDone /\ TargetRead = 10000 /\ TipMaxRead = 500
  /\ PIDTempTarget = 450
  /\ currentTipTempInC = 25 /\ ErrorFiltered = 426

----------------------------------------------------------------------------
(* The slew limiter: the request after the ceilings is held or changed from *)
(* cycle to cycle.  watch.n counts the sample cycles in a row that had the  *)
(* request watch.v after the ceilings, the first of them entered with a     *)
(* slew state of 0; watch.prev is what the cycle before this one committed. *)

MaxRun == 4

SlewRequests == {SLEW_LIMIT * 3, SLEW_LIMIT - 2, 0 - 3}

PostClamp == StageOut("SupplyCeiling")

SlewSample(tipTemp) ==
  /\ TakeSampleCore(tipTemp)
  /\ watch' = [watch EXCEPT !.prev = Committed]

SlewCompute(request) ==
  /\ ComputeCore(TipMax, RawOk, request - PowerAverage, PowerAverage)
  /\ watch' = [watch EXCEPT
                 !.n = IF watch.n > 0 /\ PostClamp' = watch.v
                       THEN Min(watch.n + 1, MaxRun)
                       ELSE IF x10WattsOutLast = 0 THEN 1 ELSE 0,
                 !.v = PostClamp']
  /\ UNCHANGED healthy

NextSlew ==
  \/ Startup
  \/ SetTarget(ClampTarget)
  \/ SlewSample(ClampTemp)
  \/ \E r \in SlewRequests : SlewCompute(r)
  \/ Timeout
  \/ Tick(TickStep)

SpecSlew == Init /\ [][NextSlew]_vars

\* C11: with slew limiting enabled, starting from a committed output of 0, a
\* request after the ceilings held at a constant R >= 0 over consecutive
\* sample cycles commits min(k * SLEW_LIMIT, R) in the k-th of them: for
\* R = 3 * SLEW_LIMIT that is SLEW_LIMIT, 2 * SLEW_LIMIT, 3 * SLEW_LIMIT, and
\* 3 * SLEW_LIMIT from then on.
C11_SlewRamp ==
  SampleDone /\ slewEnabled /\ watch.n >= 1 /\ watch.v >= 0 =>
    Committed = Min(watch.n * SLEW_LIMIT, watch.v)

\* the fourth cycle in a row with request 3 * SLEW_LIMIT: the ramp arrived at
\* the request in the third and stays there
C11_Witness ==
  /\ SampleDone /\ slewEnabled
  /\ watch.n = 4 /\ watch.v = SLEW_LIMIT * 3
  /\ watch.prev = SLEW_LIMIT * 3
  /\ Committed = SLEW_LIMIT * 3

----------------------------------------------------------------------------
(* The error history and the power sum: errors of both signs and the        *)
(* saturated one are fed to the history.  watch.n counts the updates in a   *)
(* row that fed the error watch.v.                                          *)

ErrorTemps == {25, 298, 301, 400, 40000}
PowerAverages == {PowerAverage, 9}

RECURSIVE BufferSum(_, _)
BufferSum(buf, n) == IF n = 0 THEN 0 ELSE buf[n - 1] + BufferSum(buf, n - 1)

FeedForwardRead == CallsOf("tempToX10Watts")[1].b
PowerAverageRead == CallsOf("x10WattHistory.average")[1].a

HistoryCompute(feedForward, powerAverage) ==
  /\ ComputeCore(TipMax, RawOk, feedForward, powerAverage)
  /\ watch' = IF PIDTempTarget # 0
              THEN [watch EXCEPT
                      !.n = IF watch.n > 0 /\ ErrorFiltered' = watch.v
                            THEN Min(watch.n + 1, PID_TIM_HZ)
                            ELSE 1,
                      !.v = ErrorFiltered']
              ELSE watch
  /\ UNCHANGED healthy

NextHistory ==
  \/ Startup
  \/ \E v \in {0, ClampTarget} : SetTarget(v)
  \/ \E t \in ErrorTemps : TakeSample(t)
  \/ \E f \in FeedForwards, a \in PowerAverages : HistoryCompute(f, a)
  \/ Timeout

SpecHistory == Init /\ [][NextHistory]_vars

\* C12: the error history keeps its running sum equal to the sum of the
\* buffer contents: from all-zero samples and a zero sum, after every sequence
\* of updates with errors in the signed 16-bit range, where each update
\* replaces the oldest sample by the new one.
C12_SumIsBufferSum ==
  /\ tempError.sum = BufferSum(tempError.buf, PID_TIM_HZ)
  /\ SampleDone /\ TargetRead # 0 =>
       tempError.buf[(tempError.loc + PID_TIM_HZ - 1) % PID_TIM_HZ] = ErrorFiltered

\* the history holds the saturated error INT16_MIN and a positive one
C12_Witness ==
  /\ SampleDone /\ TargetRead # 0
  /\ ErrorFiltered = INT16_MIN
  /\ \E i \in 0 .. PID_TIM_HZ - 1 : tempError.buf[i] > 0
  /\ tempError.sum < 0

\* C13: after the same error e was fed to the history in at least PID_TIM_HZ
\* consecutive updates, the average of the history is e, for positive, zero
\* and negative e and whatever the history held before.
C13_ConstantErrorAverage ==
  watch.n >= PID_TIM_HZ => HistoryAverage(tempError) = watch.v

\* a negative error filled the history
C13_Witness ==
  /\ SampleDone /\ watch.n >= PID_TIM_HZ
  /\ watch.v < 0 /\ watch.v > INT16_MIN
  /\ HistoryAverage(tempError) = ErrorFiltered

C15_StepFromPreviousCycle ==
  /\ SampleDone /\ slewEnabled =>
       Committed <= watch.prev + SLEW_LIMIT /\ Committed >= 0
  /\ TimeoutDone => Committed = 0

----------------------------------------------------------------------------
(* The keep-awake pulse over a wrapping tick counter: the pulse is switched *)
(* on and off between cycles, the window length is set before the first     *)
(* cycle, and the tick counter runs through its whole range.                *)

PulseDuration == 4
PulseTickStep == TickMod \div 8

PulseFeedForwards == {0 - 5, 80}

PulseSetup ==
  /\ cycle = "none"
  /\ SetSetting("KeepAwakePulseDuration", PulseDuration)

NextPulse ==
  \/ Startup
  \/ PulseSetup
  \/ \E v \in PulseLevels : SetSetting("KeepAwakePulse", v)
  \/ SetTarget(ClampTarget)
  \/ TakeSample(ClampTemp)
  \/ \E f \in PulseFeedForwards : Compute(TipMax, RawOk, f, PowerAverage)
  \/ Tick(PulseTickStep)

SpecPulse == Init /\ [][NextPulse]_vars

\* the length of a pulse window, lines 151-153
PulseLength == ToTick(powerPulseDurationUnit * settings.KeepAwakePulseDuration)

\* C16: the keep-awake stage never lowers the requested power, and it raises
\* it, to the KeepAwakePulse level, only when the setting is enabled and the
\* current tick is at most powerPulseDurationUnit * KeepAwakePulseDuration
\* ticks after the last window opening, for every value of the wrapping tick
\* counter and from lastPowerPulseStart = lastPowerPulseEnd = 0.
C16_RaisesOnlyInWindow ==
  [][pc = "calc" /\ pc' = "wait" =>
       /\ StageOut("KeepAwakeFloor")' >= StageIn("KeepAwakeFloor")'
       /\ StageOut("KeepAwakeFloor")' > StageIn("KeepAwakeFloor")' =>
            /\ PulseLevelRead' # 0
            /\ StageOut("KeepAwakeFloor")' = PulseLevelRead'
            /\ ToTick(tick - lastPowerPulseStart') <= PulseLength]_vars

----------------------------------------------------------------------------
(* The runaway detector near the target: errors above and not above         *)
(* THERMAL_RUNAWAY_TEMP_C with a non-zero target, and target 0              *)

DetectorTemps == {25, 296, 298}

NextDetector ==
  \/ Startup
  \/ \E v \in Targets : SetTarget(v)
  \/ \E t \in DetectorTemps : TakeSample(t)
  \/ Compute(TipMax, RawOk, FeedForward, PowerAverage)
  \/ Timeout
  \/ Tick(TickStep)

SpecDetector == Init /\ [][NextDetector]_vars

\* C18: in every cycle with an error of at most THERMAL_RUNAWAY_TEMP_C, also
\* every cycle with target 0, the detector resets its reference to the current
\* temperature and tick and leaves the flag as it is; the flag turns from
\* false to true only in a cycle with an error above THERMAL_RUNAWAY_TEMP_C,
\* a tip temperature within THERMAL_RUNAWAY_TEMP_C of the reference and more
\* than THERMAL_RUNAWAY_TIME_SEC * TICKS_SECOND ticks since the reference
\* timestamp.
C18_StallTimeOnlyWhileHeating ==
  /\ [][pc = "calc" /\ pc' = "wait" /\ ErrorDetected' <= THERMAL_RUNAWAY_TEMP_C =>
          /\ tipTempCRunawayTemp' = currentTipTempInC
          /\ runawaylastChangeTime' = tick
          /\ heaterThermalRunaway' = heaterThermalRunaway]_vars
  /\ [][~heaterThermalRunaway /\ heaterThermalRunaway' =>
          /\ pc = "calc" /\ pc' = "wait"
          /\ ErrorDetected' > THERMAL_RUNAWAY_TEMP_C
          /\ StallNearReference
          /\ StallElapsed]_vars

\* after the fault, a cycle with a non-zero target and a small error moved
\* the reference to its temperature and tick, and the flag is still set
C18_Witness ==
  /\ SampleDone /\ TargetRead # 0
  /\ ErrorDetected <= THERMAL_RUNAWAY_TEMP_C /\ ErrorDetected > 0
  /\ tipTempCRunawayTemp = currentTipTempInC
  /\ runawaylastChangeTime = tick /\ tick > RunawayTimeLimit
  /\ heaterThermalRunaway

\* C19: the control task reads currentTempTargetDegC exactly once per sample
\* cycle into PIDTempTarget: whenever another task writes the target, the
\* on/off decision, the 450 and tip-maximum clamps and the error of the cycle
\* all use the one value read, and the control task does not write
\* currentTempTargetDegC inside its loop.
C19_TargetReadOnce ==
  /\ [](cycle = "sample" => Len(CallsOf("currentTempTargetDegC")) = 1)
  /\ [](SampleDone =>
          IF TargetRead = 0
          THEN /\ CallsOf("tempError.update") = <<>>
               /\ PIDTempTarget = 0 /\ ErrorDetected = 0 /\ Requested = 0
          ELSE /\ PIDTempTarget = Min(Min(TargetRead, MaxSetPoint), TipMaxRead)
               /\ ErrorFiltered = Saturate16(PIDTempTarget - currentTipTempInC + 1)
               /\ ErrorDetected = ErrorFiltered
               /\ Requested = FeedForwardRead + PowerAverageRead)
  /\ [][pc # "start" /\ (pc' # pc \/ cycle' # cycle \/ calls' # calls) =>
          currentTempTargetDegC' = currentTempTargetDegC]_vars

\* the cycle read 10000 and clamped it to 450; the target is 1 by now
C19_Witness ==
  /\ SampleDone /\ TargetRead = 10000 /\ TipMaxRead = 500
  /\ currentTempTargetDegC = 1
  /\ PIDTempTarget = MaxSetPoint
  /\ Requested # 0

----------------------------------------------------------------------------
(* Switching the heater off: the target goes back to 0 while the limits,    *)
(* the pulse, the raw reading, the runaway flag and the slew state vary     *)

OffLimits == {0, 3}
OffTickStep == TickMod \div 2

NextOff ==
  \/ Startup
  \/ \E v \in Targets : SetTarget(v)
  \/ SlewSample(ClampTemp)
  \/ \E r \in RawReadings : Compute(TipMax, r, SLEW_LIMIT * 3 - PowerAverage, PowerAverage)
  \/ Tick(OffTickStep)
  \/ \E v \in PulseLevels : SetSetting("KeepAwakePulse", v)
  \/ \E v \in OffLimits : SetSetting("PowerLimit", v)
  \/ \E v \in SupplyLimits : SetSupplyLimit(v)

SpecOff == Init /\ [][NextOff]_vars

\* C20: in every sample cycle in which the target read is 0 and the
\* KeepAwakePulse setting is 0, the committed heater power is 0, whatever the
\* tip temperature, the raw reading, the runaway flag, the power limit, the
\* supply limit and, with slew limiting, the previous slew state are.
C20_OffMeansOff ==
  SampleDone /\ TargetRead = 0 /\ PulseLevelRead = 0 => Committed = 0

\* the cycle before committed a positive power under slew limiting; this one
\* read target 0 with the pulse off and both limits set, and committed 0
C20_Witness ==
  /\ SampleDone /\ TargetRead = 0 /\ PulseLevelRead = 0
  /\ slewEnabled /\ watch.prev > SLEW_LIMIT
  /\ PowerLimitRead # 0 /\ SupplyLimitRead # 0
  /\ Committed = 0

====
